---- MODULE Spec2Model ----
(***************************************************************************)
(* Inverse kinematics of the two-segment SCARA arm of roboticarm.go, and   *)
(* the two draft solvers move1/move2 of the unnamed draft file.            *)
(*                                                                         *)
(* float64 values are modelled as decimal fixed-point numbers with         *)
(* K*K units per 1.0 plus the IEEE-754 special values NaN, +Inf, -Inf and  *)
(* the negative zero.  Every arithmetic operation rounds its exact result  *)
(* to the nearest unit, as float64 rounds it to the nearest                *)
(* representable value.  Magnitudes stay far below the float64     *)
(* range, so overflow to Inf is not modelled.                              *)
(***************************************************************************)
EXTENDS Integers, Sequences, FiniteSets, TLC

(* ---------------------------------------------------------------- bounds *)

\* Resolution of the fixed-point model: K*K units per 1.0.
K == 1000

\* Targets are drawn from the integer grid -MaxCoord..MaxCoord on each axis.
MaxCoord == 22

\* Number of concurrent calls of angles in SpecConc.
NCalls == 2

Scale == K * K

(* ------------------------------------------------- natural-number kernel *)

\* The doubling step of MulDivMod: from h = <<q, r>> with a*(b \div 2) =
\* q*c + r to the pair of a*b, where add is a if b is odd and 0 otherwise.
Doubled[h \in Nat \X Nat, add \in Nat, c \in Nat] ==
    <<2 * h[1] + (2 * h[2] + add) \div c, (2 * h[2] + add) % c>>

\* <<q, r>> with a*b = q*c + r and 0 <= r < c, for naturals a < c, computed
\* by doubling so that no intermediate exceeds 3*c.  The recursive kernels
\* are functions, so that each argument is evaluated once.
MulDivMod[a \in Nat, b \in Nat, c \in Nat] ==
    IF b = 0 THEN <<0, 0>>
    ELSE Doubled[MulDivMod[a, b \div 2, c], IF b % 2 = 1 THEN a ELSE 0, c]

\* q + 1 if the remainder r of a division by c is at least c/2, else q.
RoundUp[m \in Nat \X Nat, c \in Nat] == m[1] + (IF 2 * m[2] >= c THEN 1 ELSE 0)

\* a*b/c rounded to the nearest natural (ties up), for naturals a, b and c > 0.
MulDivRound(a, b, c) == (a \div c) * b + RoundUp[MulDivMod[a % c, b, c], c]

\* floor(a*b/c) for naturals a, b and c > 0.
MulDivFloor(a, b, c) == (a \div c) * b + MulDivMod[a % c, b, c][1]

\* Newton's iteration for floor(sqrt(v*Scale)), started above the root at t;
\* n is the iterate that follows t.
SqrtIter[v \in Nat, t \in Nat, n \in Nat] ==
    IF n >= t THEN t
    ELSE SqrtIter[v, n, (n + MulDivFloor(v, Scale, n)) \div 2]

\* t or t+1, whichever is nearer to sqrt(v*Scale), for t = floor(sqrt(v*Scale)):
\* v*Scale - t*t lies in 0..2t.
SqrtRound[v \in Nat, t \in Nat] ==
    IF (v - MulDivFloor(t, t, Scale)) * Scale - MulDivMod[t % Scale, t, Scale][2] > t
    THEN t + 1 ELSE t

SqrtStart[v \in Nat, t \in Nat] ==
    SqrtIter[v, t, (t + MulDivFloor(v, Scale, t)) \div 2]

\* sqrt of the fixed-point natural v, rounded to the nearest unit.
SqrtNat(v) ==
    IF v = 0 THEN 0
    ELSE SqrtRound[v, SqrtStart[v, (v + Scale) \div 2 + 1]]

Abs(n) == IF n < 0 THEN -n ELSE n

(* ------------------------------------------------------- float64 values *)

Fin(v)   == [c |-> "fin", v |-> v, z |-> FALSE]
NegZero  == [c |-> "fin", v |-> 0, z |-> TRUE]
NaN      == [c |-> "nan", v |-> 0, z |-> FALSE]
Inf(neg) == [c |-> "inf", v |-> IF neg THEN -1 ELSE 1, z |-> FALSE]

IsNaN(f)    == f.c = "nan"
IsInf(f)    == f.c = "inf"
IsFinite(f) == f.c = "fin"
IsZero(f)   == f.c = "fin" /\ f.v = 0
\* The sign bit (math.Signbit).
Signbit(f)  == IF f.v # 0 THEN f.v < 0 ELSE f.z

\* The finite value with sign bit neg and magnitude mag.
Signed(neg, mag) ==
    IF mag = 0 THEN [c |-> "fin", v |-> 0, z |-> neg]
    ELSE Fin(IF neg THEN -mag ELSE mag)

\* The float64 of the integer n.
Num(n) == Fin(n * Scale)

\* The float64 values an operation takes and yields.
Float == [c : {"fin", "nan", "inf"}, v : Int, z : BOOLEAN]

\* The arithmetic operations and the functions of package math are functions
\* on Float: an argument is evaluated once, like an operand in the program.

\* Unary minus.
FNeg[a \in Float] ==
    CASE IsNaN(a) -> NaN
      [] IsInf(a) -> Inf(~Signbit(a))
      [] OTHER    -> Signed(~Signbit(a), Abs(a.v))

\* a + b
FAdd[a \in Float, b \in Float] ==
    CASE IsNaN(a) \/ IsNaN(b) -> NaN
      [] IsInf(a) /\ IsInf(b) -> IF a.v = b.v THEN a ELSE NaN
      [] IsInf(a)             -> a
      [] IsInf(b)             -> b
      [] OTHER                ->
            IF a.v + b.v = 0
            THEN Signed(IsZero(a) /\ IsZero(b) /\ a.z /\ b.z, 0)
            ELSE Fin(a.v + b.v)

\* a - b
FSub[a \in Float, b \in Float] == FAdd[a, FNeg[b]]

\* a * b
FMul[a \in Float, b \in Float] ==
    CASE IsNaN(a) \/ IsNaN(b) -> NaN
      [] IsInf(a) \/ IsInf(b) ->
            IF IsZero(a) \/ IsZero(b) THEN NaN ELSE Inf(Signbit(a) # Signbit(b))
      [] OTHER -> Signed(Signbit(a) # Signbit(b),
                         MulDivRound(Abs(a.v), Abs(b.v), Scale))

\* a / b: no panic on a zero divisor; 0/0 is NaN and x/0 is an infinity.
FDiv[a \in Float, b \in Float] ==
    CASE IsNaN(a) \/ IsNaN(b) -> NaN
      [] IsInf(a)  -> IF IsInf(b) THEN NaN ELSE Inf(Signbit(a) # Signbit(b))
      [] IsInf(b)  -> Signed(Signbit(a) # Signbit(b), 0)
      [] IsZero(b) -> IF IsZero(a) THEN NaN ELSE Inf(Signbit(a) # Signbit(b))
      [] OTHER     -> Signed(Signbit(a) # Signbit(b),
                             MulDivRound(Abs(a.v), Scale, Abs(b.v)))

\* Position of a non-NaN value on the extended real line.
Ord(f) == IF IsInf(f) THEN f.v * 2147483647 ELSE f.v

\* a < b, a <= b, a == b; every comparison with NaN is false, and -0 == +0.
FLt(a, b) == ~IsNaN(a) /\ ~IsNaN(b) /\ Ord(a) < Ord(b)
FLe(a, b) == ~IsNaN(a) /\ ~IsNaN(b) /\ Ord(a) <= Ord(b)
FEq(a, b) == ~IsNaN(a) /\ ~IsNaN(b) /\ Ord(a) = Ord(b)

\* math.Copysign(a, s) for a non-NaN a.
Copysign[a \in Float, s \in Float] == IF Signbit(a) = Signbit(s) THEN a ELSE FNeg[a]

(* ------------------------------------------------------ package math *)

\* math.Pi/2, math.Pi and math.Pi/4.  Halving is exact in float64, so the
\* three constants are kept exact multiples of one another.
PiQuarter == MulDivFloor(785398, Scale, 1000000)
PiHalf    == 2 * PiQuarter
Pi        == 2 * PiHalf

\* math.Sqrt: NaN for a negative argument, never a panic.
Sqrt[a \in Float] ==
    CASE IsNaN(a)  -> NaN
      [] IsInf(a)  -> IF Signbit(a) THEN NaN ELSE a
      [] IsZero(a) -> a
      [] a.v < 0   -> NaN
      [] OTHER     -> Fin(SqrtNat(a.v))

\* The arctangent series t - t^3/3 + t^5/5 - ... from the term p = t^n on,
\* for a natural t <= 0.66 (the kernel xatan of package math).
AtanSeries[p \in Nat, t2 \in Nat, n \in Nat] ==
    IF p = 0 THEN 0
    ELSE (p + n \div 2) \div n - AtanSeries[MulDivRound(p, t2, Scale), t2, n + 2]

\* The series is odd: xatan(-t) = -xatan(t).
xatan[t \in Int] ==
    IF t < 0 THEN -AtanSeries[-t, MulDivRound(-t, -t, Scale), 1]
    ELSE AtanSeries[t, MulDivRound(t, t, Scale), 1]

\* x/y of two fixed-point integers, y > 0, rounded to the nearest unit.
Quot(x, y) ==
    IF x < 0 THEN -MulDivRound(-x, Scale, y) ELSE MulDivRound(x, Scale, y)

\* satan of package math: the arctangent of a natural t, reduced to the
\* kernel's range at 0.66 and tan(3*pi/8).
Tan3pio8 == MulDivFloor(2414214, Scale, 1000000)
satan[t \in Nat] ==
    IF t <= (66 * Scale) \div 100 THEN xatan[t]
    ELSE IF t > Tan3pio8 THEN PiHalf - xatan[Quot(Scale, t)]
    ELSE PiQuarter + xatan[Quot(t - Scale, t + Scale)]

\* math.Atan
Atan[a \in Float] ==
    CASE IsNaN(a)  -> NaN
      [] IsZero(a) -> a
      [] IsInf(a)  -> Signed(Signbit(a), PiHalf)
      [] OTHER     -> Signed(Signbit(a), satan[Abs(a.v)])

\* The quadrant of q = atan(y/x) in math.Atan2.
Quadrant[q \in Float, x \in Float] ==
    IF FLt(x, Fin(0))
    THEN IF FLe(q, Fin(0)) THEN FAdd[q, Fin(Pi)] ELSE FSub[q, Fin(Pi)]
    ELSE q

\* math.Atan2 for finite or NaN arguments: the special cases of a zero
\* argument, then the quadrant of atan(y/x).
Atan2[y \in Float, x \in Float] ==
    CASE IsNaN(x) \/ IsNaN(y) -> NaN
      [] IsZero(y) ->
            IF FLe(Fin(0), x) /\ ~Signbit(x) THEN Copysign[Fin(0), y]
            ELSE Copysign[Fin(Pi), y]
      [] IsZero(x) -> Copysign[Fin(PiHalf), y]
      [] OTHER     -> Quadrant[Atan[FDiv[y, x]], x]

\* math.Asin for 0 < x <= 1 or NaN, with temp = sqrt(1 - x*x).
AsinOf[x \in Float, temp \in Float] ==
    IF FLt(Fin((7 * Scale) \div 10), x)
    THEN FSub[Fin(PiHalf), Atan[FDiv[temp, x]]]
    ELSE Atan[FDiv[x, temp]]

\* math.Asin: NaN outside [-1, 1].
Asin[a \in Float] ==
    IF IsZero(a) THEN a
    ELSE IF FLt(a, Fin(0))
    THEN IF FLt(Num(1), FNeg[a]) THEN NaN
         ELSE FNeg[AsinOf[FNeg[a], Sqrt[FSub[Num(1), FMul[a, a]]]]]
    ELSE IF FLt(Num(1), a) THEN NaN
         ELSE AsinOf[a, Sqrt[FSub[Num(1), FMul[a, a]]]]

\* math.Acos: Pi/2 - Asin(x), NaN outside [-1, 1].
Acos[a \in Float] == FSub[Fin(PiHalf), Asin[a]]

(* ------------------------------------------------------- roboticarm.go *)

\* The lengths of the two segments of the robot's arm.
len1 == Num(10)
len2 == Num(10)

\* The law of cosines with the sign of c*c flipped.
lawOfCosinesPlus(a, b, c) ==
    Acos[FDiv[FAdd[FAdd[FMul[a, a], FMul[b, b]], FMul[c, c]],
              FMul[FMul[Num(2), a], b]]]

\* The law of cosines with the cosine clamped into [-1, 1].
lawOfCosinesClamped(a, b, c) ==
    LET q == FDiv[FSub[FAdd[FMul[a, a], FMul[b, b]], FMul[c, c]],
                  FMul[FMul[Num(2), a], b]]
    IN  Acos[IF FLt(Num(1), q) THEN Num(1)
             ELSE IF FLt(q, Num(-1)) THEN Num(-1) ELSE q]

\* The law of cosines with a zero divisor special-cased to the angle 0.
lawOfCosinesGuarded(a, b, c) ==
    IF IsZero(FMul[FMul[Num(2), a], b]) THEN Fin(0)
    ELSE Acos[FDiv[FSub[FAdd[FMul[a, a], FMul[b, b]], FMul[c, c]],
                   FMul[FMul[Num(2), a], b]]]

\* The law of cosines with the divisor taken from the wrong pair of sides.
lawOfCosinesWrongSides(a, b, c) ==
    Acos[FDiv[FSub[FAdd[FMul[a, a], FMul[b, b]], FMul[c, c]],
              FMul[FMul[Num(2), b], c]]]

\* The law of cosines without the factor 2 of the divisor.
lawOfCosinesNoTwo(a, b, c) ==
    Acos[FDiv[FSub[FAdd[FMul[a, a], FMul[b, b]], FMul[c, c]], FMul[a, b]]]

\* The law of cosines, transformed so that C is the unknown.
lawOfCosines(a, b, c) ==
    Acos[FDiv[FSub[FAdd[FMul[a, a], FMul[b, b]], FMul[c, c]],
              FMul[FMul[Num(2), a], b]]]

\* The distance from (0,0) to (x,y).
distance(x, y) == Sqrt[FAdd[FMul[x, x], FMul[y, y]]]

\* The single-argument arctangent of y/x in place of math.Atan2.
AngleD1Atan(x, y) == Atan[FDiv[y, x]]

\* D1: the angle of the line from (0,0) to (x,y), by math.Atan2(y, x).
AngleD1(x, y) == Atan2[y, x]

\* A1 = D1 - D2
SumDMinus(D1, D2) == FSub[D1, D2]

\* A1 = D1 + D2
SumD(D1, D2) == FAdd[D1, D2]

\* The two joint angles for given x and y, as one call computes them.
angles(x, y) ==
    LET dist == distance(x, y)
        D1   == AngleD1(x, y)
        D2   == lawOfCosines(dist, len1, len2)
        A1   == SumD(D1, D2)
        A2   == lawOfCosines(len1, len2, dist)
    IN  [A1 |-> A1, A2 |-> A2]

\* Convert radians into degrees.
deg(rad) == FDiv[FMul[rad, Num(180)], Fin(Pi)]

\* The targets main moves the arm to, in order.
MainTargets ==
    << <<Num(5), Num(5)>>, <<Sqrt[Num(200)], Num(0)>>, <<Num(1), Num(19)>>,
       <<Num(20), Num(0)>>, <<Num(0), Num(20)>>, <<Num(0), Num(0)>>,
       <<Num(20), Num(20)>> >>

(* -------------------------------------------------------------- state *)

VARIABLES
    calls,   \* the activations of angles: id -> arguments, locals, position
    todo,    \* the targets the driver has still to move to
    out,     \* the lines the driver has printed
    draft    \* the draft program: its target and the results of move1, move2

vars == <<calls, todo, out, draft>>

\* A local that is not declared yet.
Unset == [c |-> "unset", v |-> 0, z |-> FALSE]

\* The finite coordinates a target is drawn from: the integer grid and -0.
Coords == {Num(n) : n \in -MaxCoord..MaxCoord} \cup {NegZero}

GridTargets == Coords \X Coords

\* The frame of a call angles(x, y) at its first statement; the named
\* results A1 and A2 start as zero.
Frame(x, y) ==
    [x |-> x, y |-> y, pc |-> "dist", dist |-> Unset, D1 |-> Unset,
     D2 |-> Unset, A1 |-> Fin(0), A2 |-> Fin(0), a1 |-> Unset, a2 |-> Unset]

\* The driver before its first call.
Idle == [Frame(Unset, Unset) EXCEPT !.pc = "idle"]

NoDraft == [x |-> Unset, y |-> Unset, r1 |-> <<>>, r2 |-> <<>>]

\* Assignment to a package-level variable that all activations share.
SetShared(cs, i, name, val) ==
    [j \in DOMAIN cs |-> [cs[j] EXCEPT ![name] = val]]

\* Assignment to a local of call i: each activation has its own locals.
SetLocal(cs, i, name, val) == [cs EXCEPT ![i][name] = val]

(* ------------------------------------------------------------ actions *)

\* main: x, y = ...; the call angles(x, y) begins.
StartCall(i) ==
    /\ calls[i].pc = "idle"
    /\ todo # <<>>
    /\ calls' = [calls EXCEPT ![i] = Frame(Head(todo)[1], Head(todo)[2])]
    /\ todo' = Tail(todo)
    /\ UNCHANGED <<out, draft>>

\* dist := distance(x, y)
StepDist(i) ==
    /\ calls[i].pc = "dist"
    /\ calls' = [SetLocal(calls, i, "dist", distance(calls[i].x, calls[i].y))
                    EXCEPT ![i].pc = "D1"]
    /\ UNCHANGED <<todo, out, draft>>

\* D1 := math.Atan2[y, x]
StepD1(i) ==
    /\ calls[i].pc = "D1"
    /\ calls' = [SetLocal(calls, i, "D1", AngleD1(calls[i].x, calls[i].y))
                    EXCEPT ![i].pc = "D2"]
    /\ UNCHANGED <<todo, out, draft>>

\* D2 := lawOfCosines(dist, len1, len2) where a zero divisor panics.
StepD2Panics(i) ==
    /\ calls[i].pc = "D2"
    /\ calls' = IF IsZero(FMul[FMul[Num(2), calls[i].dist], len1])
                THEN [calls EXCEPT ![i].pc = "panic"]
                ELSE [SetLocal(calls, i, "D2", lawOfCosines(calls[i].dist, len1, len2))
                         EXCEPT ![i].pc = "A1"]
    /\ UNCHANGED <<todo, out, draft>>

\* D2 := lawOfCosines(dist, len1, len2)
StepD2(i) ==
    /\ calls[i].pc = "D2"
    /\ calls' = [SetLocal(calls, i, "D2", lawOfCosines(calls[i].dist, len1, len2))
                    EXCEPT ![i].pc = "A1"]
    /\ UNCHANGED <<todo, out, draft>>

\* A1 = D1 + D2
StepA1(i) ==
    /\ calls[i].pc = "A1"
    /\ calls' = [SetLocal(calls, i, "A1", SumD(calls[i].D1, calls[i].D2))
                    EXCEPT ![i].pc = "A2"]
    /\ UNCHANGED <<todo, out, draft>>

\* A2 = lawOfCosines(len1, len2, dist)
StepA2(i) ==
    /\ calls[i].pc = "A2"
    /\ calls' = [SetLocal(calls, i, "A2", lawOfCosines(len1, len2, calls[i].dist))
                    EXCEPT ![i].pc = "return"]
    /\ UNCHANGED <<todo, out, draft>>

\* return A1, A2: the caller receives both values as they are.
Return(i) ==
    /\ calls[i].pc = "return"
    /\ calls' = [calls EXCEPT ![i].a1 = calls[i].A1, ![i].a2 = calls[i].A2,
                              ![i].pc = "returned"]
    /\ UNCHANGED <<todo, out, draft>>

\* The line main prints after a call, whatever the values are.
Line(c) == <<c.x, c.y, c.a1, deg(c.a1), c.a2, deg(c.a2)>>

\* fmt.Printf("x=%v, y=%v: A1=%v (%v°), A2=%v (%v°)\n", ...)
Printf(i) ==
    /\ calls[i].pc = "returned"
    /\ out' = Append(out, Line(calls[i]))
    /\ calls' = [calls EXCEPT ![i].pc = "idle"]
    /\ UNCHANGED <<todo, draft>>

Step(i) ==
    \/ StepDist(i)
    \/ StepD1(i)
    \/ StepD2(i)
    \/ StepA1(i)
    \/ StepA2(i)
    \/ Return(i)

(* ----------------------------------------------------- specifications *)

\* The driver: main's seven targets in order, or one target of the grid.
Init ==
    /\ calls = <<Idle>>
    /\ todo \in {MainTargets} \cup {<<t>> : t \in GridTargets}
    /\ out = <<>>
    /\ draft = NoDraft

Next == StartCall(1) \/ Step(1) \/ Printf(1)

Spec == Init /\ [][Next]_vars

\* NCalls calls of angles running at the same time, each on one of main's
\* targets (5,5), (sqrt 200, 0), (0,0) and (20,20).
ConcTargets == {MainTargets[k] : k \in {1, 2, 6, 7}}

InitConc ==
    /\ calls \in [1..NCalls -> {Frame(t[1], t[2]) : t \in ConcTargets}]
    /\ todo = <<>>
    /\ out = <<>>
    /\ draft = NoDraft

NextConc == \E i \in DOMAIN calls : Step(i)

SpecConc == InitConc /\ [][NextConc]_vars

\* The driver is a sequential program: it takes its next step as long as it
\* has one.
SpecFair == Spec /\ WF_vars(Next)

(* ------------------------------------------------- the draft program *)

\* The lengths of the two segments of the robot's arm.
l1 == Num(10)
l2 == Num(10)

\* The distance d from (0,0) to (x,y), squared.
squareDist(x, y) == FAdd[FMul[x, x], FMul[y, y]]

beta1(x, y) == Atan2[y, x]

beta2(dsq, la, lb) ==
    Acos[FDiv[FSub[FAdd[dsq, FMul[lb, lb]], FMul[la, la]],
              FMul[FMul[Num(2), lb], Sqrt[dsq]]]]

alpha2(dsq, la, lb) ==
    Acos[FDiv[FSub[FAdd[dsq, FMul[la, la]], FMul[lb, lb]],
              FMul[FMul[Num(2), la], Sqrt[dsq]]]]

move1(x, y) ==
    LET d == squareDist(x, y)
    IN  [a1 |-> FAdd[beta1(x, y), beta2(d, l1, l2)], a2 |-> alpha2(d, l1, l2)]

lawOfCosine(a, b, c) ==
    Acos[FDiv[FAdd[FSub[FMul[b, b], FMul[a, a]], FMul[c, c]],
              FMul[FMul[Num(2), b], c]]]

\* move2 passes (x, y) to math.Atan2, whose parameters are (y, x).
move2(x, y) ==
    LET d == Sqrt[squareDist(x, y)]
    IN  [a1 |-> FAdd[Atan2[x, y], lawOfCosine(l1, l2, d)],
         a2 |-> lawOfCosine(l2, d, l1)]

\* The targets the draft's main compares the two solvers on.
DraftTargets == << <<Num(5), Num(5)>>, <<Sqrt[Num(200)], Num(0)>> >>

\* a1, a2 := move1(x, y); fmt.Println(..., a1, ",", a2)
Move1 ==
    /\ draft.r2 # <<>> \/ draft.r1 = <<>>
    /\ todo # <<>>
    /\ LET x == Head(todo)[1]
           y == Head(todo)[2]
       IN  /\ draft' = [x |-> x, y |-> y, r1 |-> move1(x, y), r2 |-> <<>>]
           /\ out' = Append(out, <<draft'.r1.a1, draft'.r1.a2>>)
    /\ todo' = Tail(todo)
    /\ UNCHANGED calls

\* a1, a2 = move2(x, y); fmt.Println(..., a1, ",", a2)
Move2 ==
    /\ draft.r1 # <<>> /\ draft.r2 = <<>>
    /\ draft' = [draft EXCEPT !.r2 = move2(draft.x, draft.y)]
    /\ out' = Append(out, <<draft'.r2.a1, draft'.r2.a2>>)
    /\ UNCHANGED <<calls, todo>>

\* The draft's main on its two targets, or on one target of the grid.
InitDraft ==
    /\ calls = <<Idle>>
    /\ todo \in {DraftTargets} \cup {<<t>> : t \in GridTargets}
    /\ out = <<>>
    /\ draft = NoDraft

NextDraft == Move1 \/ Move2

SpecDraft == InitDraft /\ [][NextDraft]_vars

(* ------------------------------------------- helpers of the properties *)

\* Tolerance on an angle, in units of 1/Scale radians.
Tol == Scale \div 100000

\* Tolerance on a coordinate of the arm's tip, in units of 1/Scale.
TipTol == Scale \div 1000

\* f is finite and within tol of the fixed-point integer v.
Near(f, v, tol) == IsFinite(f) /\ Abs(f.v - v) <= tol

\* The cosine series 1 - x^2/2! + x^4/4! - ... from the term p = x^n/n! on.
CosSeries[p \in Nat, x2 \in Nat, n \in Nat] ==
    IF p = 0 THEN 0
    ELSE p - CosSeries[MulDivRound(p, x2, Scale) \div ((n + 1) * (n + 2)), x2, n + 2]

\* cos and sin of the fixed-point angle a (an integer), reduced to [0, Pi/2].
CosInt(a) ==
    LET b == Abs(a) % (2 * Pi)
        c == IF b > Pi THEN 2 * Pi - b ELSE b
        d == IF c > PiHalf THEN Pi - c ELSE c
        v == CosSeries[Scale, MulDivRound(d, d, Scale), 0]
    IN  IF c > PiHalf THEN -v ELSE v

SinInt(a) == CosInt(a - PiHalf)

\* len * cos(a) and len * sin(a) for a finite angle a.
Reach(len, a, trig) == FMul[len, Fin(IF trig = "cos" THEN CosInt(a.v) ELSE SinInt(a.v))]

\* The call i has returned its pair to the caller.
Returned(i) == calls[i].pc = "returned"

\* The target of call i lies within [|len1-len2|, len1+len2] of the origin.
InReach(i) ==
    /\ FLe(calls[i].dist, FAdd[len1, len2])
    /\ FLe(FSub[len1, len2], calls[i].dist)
    /\ FLe(FSub[len2, len1], calls[i].dist)

AtOrigin(i) == IsZero(calls[i].x) /\ IsZero(calls[i].y)

\* The tip of the arm for base angle a1 when the second segment points in
\* direction a1 - turn.
TipX(a1, turn) == FAdd[Reach(len1, a1, "cos"), Reach(len2, FSub[a1, turn], "cos")]
TipY(a1, turn) == FAdd[Reach(len1, a1, "sin"), Reach(len2, FSub[a1, turn], "sin")]

\* Two returned values agree: both NaN, or both finite and within Tol.
Same(f, g) ==
    \/ IsNaN(f) /\ IsNaN(g)
    \/ IsFinite(f) /\ IsFinite(g) /\ Abs(f.v - g.v) <= Tol

\* The positions of a call of angles and of its caller.
Positions == {"idle", "dist", "D1", "D2", "A1", "A2", "return", "returned"}

\* What each call of SpecConc returns when it runs alone.
Alone == [t \in ConcTargets |-> angles(t[1], t[2])]

(* ---------------------------------------------------------- properties *)

\* C1 as stated: for a target at distance exactly len1+len2, angles returns
\* A2 = 0 and A1 equal to the direction of the target.
C1_MaxReachElbowZero ==
    \A i \in DOMAIN calls :
        Returned(i) /\ FEq(calls[i].dist, FAdd[len1, len2])
        => /\ FEq(calls[i].a2, Fin(0))
           /\ FEq(calls[i].a1, calls[i].D1)

\* C1 amended: for a target at distance exactly len1+len2, angles returns
\* A2 = Pi (the angle between the two segments of the stretched arm) and A1
\* equal to the direction of the target; (20,0) gives A1 = 0 and (0,20)
\* gives A1 = Pi/2.
C1_MaxReachElbowPi ==
    \A i \in DOMAIN calls :
        Returned(i) /\ FEq(calls[i].dist, FAdd[len1, len2])
        => /\ FEq(calls[i].a2, Fin(Pi))
           /\ FEq(calls[i].a1, calls[i].D1)
           /\ (calls[i].x = Num(20) /\ calls[i].y = Num(0)
                 => FEq(calls[i].a1, Fin(0)))
           /\ (calls[i].x = Num(0) /\ calls[i].y = Num(20)
                 => FEq(calls[i].a1, Fin(PiHalf)))

C1_Witness ==
    \E i \in DOMAIN calls :
        /\ Returned(i)
        /\ calls[i].x = Num(0) /\ calls[i].y = Num(20)
        /\ FEq(calls[i].dist, FAdd[len1, len2])
        /\ calls[i].a1 = Fin(PiHalf) /\ calls[i].a2 = Fin(Pi)

\* C2 as stated: for every reachable target other than the origin, the point
\* len1*(cos A1, sin A1) + len2*(cos(A1-A2), sin(A1-A2)) reproduces (x, y)
\* within a small tolerance.
C2_RoundTripAsStated ==
    \A i \in DOMAIN calls :
        Returned(i) /\ InReach(i) /\ ~AtOrigin(i)
        => /\ Near(TipX(calls[i].a1, calls[i].a2), calls[i].x.v, TipTol)
           /\ Near(TipY(calls[i].a1, calls[i].a2), calls[i].y.v, TipTol)

\* C2 amended: for every reachable target other than the origin, the point
\* len1*(cos A1, sin A1) + len2*(cos(A1-(Pi-A2)), sin(A1-(Pi-A2)))
\* reproduces (x, y) within a small tolerance: A2 is the angle between the
\* segments, so the second segment turns back by Pi - A2.
C2_RoundTripInterior ==
    \A i \in DOMAIN calls :
        Returned(i) /\ InReach(i) /\ ~AtOrigin(i)
        => LET turn == FSub[Fin(Pi), calls[i].a2]
           IN  /\ Near(TipX(calls[i].a1, turn), calls[i].x.v, TipTol)
               /\ Near(TipY(calls[i].a1, turn), calls[i].y.v, TipTol)

C2_Witness ==
    \E i \in DOMAIN calls :
        /\ Returned(i) /\ InReach(i)
        /\ calls[i].x = Num(-3) /\ calls[i].y = Num(4)
        /\ Near(TipX(calls[i].a1, FSub[Fin(Pi), calls[i].a2]), -3 * Scale, TipTol)
        /\ Near(TipY(calls[i].a1, FSub[Fin(Pi), calls[i].a2]), 4 * Scale, TipTol)

\* The cosine the law of cosines hands to the arccosine for sides a, b, c.
CosArg(a, b, c) ==
    FDiv[FSub[FAdd[FMul[a, a], FMul[b, b]], FMul[c, c]], FMul[FMul[Num(2), a], b]]

InUnit(q) == FLe(Num(-1), q) /\ FLe(q, Num(1))

\* C3: for every finite target at distance d > 0, angles returns two finite
\* (non-NaN) angles if and only if |len1-len2| <= d <= len1+len2, that is,
\* exactly when both arccosine arguments lie in [-1, 1].
C3_FiniteIffInReach ==
    \A i \in DOMAIN calls :
        Returned(i) /\ FLt(Fin(0), calls[i].dist)
        => /\ (IsFinite(calls[i].a1) /\ IsFinite(calls[i].a2)) <=> InReach(i)
           /\ InReach(i) <=> /\ InUnit(CosArg(calls[i].dist, len1, len2))
                             /\ InUnit(CosArg(len1, len2, calls[i].dist))

C3_Witness ==
    \E i \in DOMAIN calls :
        /\ Returned(i)
        /\ calls[i].x = Num(12) /\ calls[i].y = Num(-16)
        /\ InReach(i)
        /\ IsFinite(calls[i].a1) /\ IsFinite(calls[i].a2)

\* C4: angles(0, 0) returns NaN for A1, because the D2 computation divides
\* by 2*dist*len1 = 0; the NaN reaches the caller as a value, unpatched.
C4_OriginNaN ==
    \A i \in DOMAIN calls :
        Returned(i) /\ AtOrigin(i)
        => /\ IsZero(FMul[FMul[Num(2), calls[i].dist], len1])
           /\ IsNaN(calls[i].D2)
           /\ IsNaN(calls[i].A1)
           /\ IsNaN(calls[i].a1)

C4_Witness ==
    \E i \in DOMAIN calls :
        /\ Returned(i)
        /\ calls[i].x = Num(0) /\ calls[i].y = Num(0)
        /\ IsNaN(calls[i].a1)

\* What holds of call i at every moment of a run: its position is one of the
\* program's (it has not panicked), a returned pair consists of float64
\* values with NaN for an unreachable or degenerate target, and the line
\* printed last shows the returned values as they are.
NoPanic(i) ==
    /\ calls[i].pc \in Positions
    /\ (Returned(i)
          => /\ calls[i].a1.c \in {"fin", "nan"}
             /\ calls[i].a2.c \in {"fin", "nan"}
             /\ (~InReach(i) \/ AtOrigin(i)
                   => IsNaN(calls[i].a1) \/ IsNaN(calls[i].a2)))
    /\ (calls[i].pc = "idle" /\ out # <<>>
          => /\ out[Len(out)][3] = calls[i].a1
             /\ out[Len(out)][5] = calls[i].a2)

\* C5: for every finite input the call runs to its return without a panic
\* and hands back a pair of float64 values; an unreachable or degenerate
\* target shows only as NaN in A1 and/or A2, and the driver prints the
\* returned values as they are.
C5_NaNNotPanic ==
    /\ []NoPanic(1)
    /\ (calls[1].pc = "dist") ~> Returned(1)
    /\ Returned(1) ~> (calls[1].pc = "idle" /\ out # <<>>)

C5_Witness ==
    \E i \in DOMAIN calls :
        /\ calls[i].pc = "idle" /\ out # <<>>
        /\ calls[i].x = Num(20) /\ calls[i].y = Num(20)
        /\ IsNaN(out[Len(out)][3]) /\ IsNaN(out[Len(out)][5])

\* C6: for every reachable target (x, y) other than the origin, angles(-x, -y)
\* returns the same A2 as angles(x, y), and an A1 that differs from the A1
\* of angles(x, y) by Pi (in one direction or the other).
C6_PointReflection ==
    \A i \in DOMAIN calls :
        Returned(i) /\ InReach(i) /\ ~AtOrigin(i)
        => LET r == angles(FNeg[calls[i].x], FNeg[calls[i].y])
               d == FSub[r.A1, calls[i].a1]
           IN  /\ r.A2 = calls[i].a2
               /\ Near(d, Pi, Tol) \/ Near(d, -Pi, Tol)

C6_Witness ==
    \E i \in DOMAIN calls :
        /\ Returned(i) /\ InReach(i)
        /\ calls[i].x = Num(3) /\ calls[i].y = Num(4)
        /\ Near(FSub[angles(Num(-3), Num(-4)).A1, calls[i].a1], -Pi, Tol)

\* C7: the target (sqrt(200), 0) yields A1 = Pi/4 and A2 = Pi/2.
C7_RightAngle ==
    \A i \in DOMAIN calls :
        Returned(i) /\ calls[i].x = Sqrt[Num(200)] /\ calls[i].y = Num(0)
        => /\ Near(calls[i].a1, PiQuarter, Tol)
           /\ Near(calls[i].a2, PiHalf, Tol)

C7_Witness ==
    \E i \in DOMAIN calls :
        /\ Returned(i)
        /\ calls[i].x = Sqrt[Num(200)] /\ calls[i].y = Num(0)
        /\ Near(calls[i].a1, PiQuarter, Tol)
        /\ Near(calls[i].a2, PiHalf, Tol)

\* C8: calls of angles running at the same time, in any interleaving of their
\* steps, each return exactly the result the same call returns when run alone.
C8_ConcurrentAsAlone ==
    \A i \in DOMAIN calls :
        Returned(i)
        => /\ calls[i].a1 = Alone[<<calls[i].x, calls[i].y>>].A1
           /\ calls[i].a2 = Alone[<<calls[i].x, calls[i].y>>].A2

C8_Witness ==
    /\ Returned(1)
    /\ calls[2].pc = "A1"
    /\ calls[1].x # calls[2].x
    /\ calls[1].a1 = Alone[<<calls[1].x, calls[1].y>>].A1

\* C9: for every target move1 and move2 return the same pair (a1, a2).
C9_DraftsAgree ==
    draft.r2 # <<>>
    => /\ Same(draft.r1.a1, draft.r2.a1)
       /\ Same(draft.r1.a2, draft.r2.a2)

\* C10: if A2 is NaN then A1 is NaN too; for every unreachable target both
\* A1 and A2 are NaN; exactly one of the two is NaN only for d = 0, where A1
\* is NaN and A2 = 0.
C10_FailTogether ==
    \A i \in DOMAIN calls :
        Returned(i)
        => /\ (IsNaN(calls[i].a2) => IsNaN(calls[i].a1))
           /\ (~InReach(i) => IsNaN(calls[i].a1) /\ IsNaN(calls[i].a2))
           /\ (IsNaN(calls[i].a1) # IsNaN(calls[i].a2)
                 => /\ IsZero(calls[i].dist)
                    /\ IsNaN(calls[i].a1)
                    /\ FEq(calls[i].a2, Fin(0)))

C10_Witness ==
    \E i \in DOMAIN calls :
        /\ Returned(i)
        /\ calls[i].x = Num(-20) /\ calls[i].y = Num(1)
        /\ ~InReach(i)
        /\ IsNaN(calls[i].a1) /\ IsNaN(calls[i].a2)
====
